---- MODULE Spec2Model ----
(***************************************************************************)
(* The run-code context of the code editor (RunCodeContext.tsx): the       *)
(* execution router, the server lifecycle manager and the timer / warning  *)
(* subsystem, as one state machine.  React state is the model's state; an  *)
(* action is one operation of the context value, one timer callback, or    *)
(* the continuation that runs when a remote call returns.  Remote calls    *)
(* are records in flight: "req" until the backend has handled them, then   *)
(* "resp" until the awaiting continuation runs.                            *)
(***************************************************************************)
EXTENDS Integers, Sequences, FiniteSets, Bags, TLC

\* ------------------------------------------------------------------ bounds
\* pids the backend can hand out (servers that ever exist in one behaviour)
MaxPid == 2
\* remote calls a caller may have outstanding before the model stops issuing
\* further user-initiated calls
MaxCalls == 2
\* server calls the network may still hold when the clock of a timed behaviour
\* moves on by a tick (the others were answered and handled within the tick)
MaxSlow == 1
\* clock ticks (of one refresh interval each) a timed behaviour runs for
MaxTicks == 5
\* ticks by which the scheduler may delay an interval's callback
MaxLate == 1
\* ticks by which the scheduler of a throttled or suspended page may delay one
SlowLate == 2
\* ticks of the clock followed where the scheduler is that slow
LateTicks == 4
\* ticks of the clock followed where two servers run
PairTicks == 2
\* ticks of the clock followed where the resource warning is watched
WarningTicks == 41

\* ------------------------------------------------------- program constants
DefaultServerLimit == 5
RefreshIntervalMs == 30000
AutoStopCheckMs == 60000
WarningCheckMs == 600000
AxiosTimeoutMs == 30000
MaxNameLength == 50
twentyMinutes == 20 * 60 * 1000
twentyFiveMinutes == 25 * 60 * 1000
thirtyMinutes == 30 * 60 * 1000
\* the clock advances in steps of one refresh interval
Tick == RefreshIntervalMs
\* Date.now() when the provider mounts, in ms
MountTime == 40 * 60 * 1000

VARIABLES
    \* React state of RunCodeContextProvider
    runningServers, serverWarning, isStartingServer,
    userServerLimit, userServerCount, autoStopWarning,
    \* React state of the execution side
    input, output, isRunning, supportedLanguages, selectedLanguage,
    showInputCollector, collectedInputs,
    \* the toast the last finished run ended with
    runSignal,
    \* useFileSystem().activeFile is set
    activeFile,
    \* the periodic tasks: the refresh interval, the auto-stop interval
    \* and the resource-warning interval with the list its closure captured
    refreshDue, autoStopTimer, warningTimer,
    \* Date.now(), in ms
    now,
    \* remote calls in flight (a bag of call records)
    calls,
    \* the server backend: its processes, the next pid, the declared limit
    backend, nextPid, backendMax,
    \* what the last completed startServer returned, and the last error or
    \* success toast startServer showed
    startResult, startToast,
    \* history: per pid the automatic stop calls issued and failed, the checks
    \* that raised the auto-stop warning for it, whether it was shown, and the
    \* checks that raised the resource warning because of it; since
    \* when each pid has been in runningServers without interruption
    autoStops, since,
    \* what the last completed viewServerLogs returned
    logsResult

uiVars == <<runningServers, serverWarning, isStartingServer,
            userServerLimit, userServerCount, autoStopWarning>>
runVars == <<input, output, isRunning, supportedLanguages, selectedLanguage,
             showInputCollector, collectedInputs, runSignal>>
timerVars == <<refreshDue, autoStopTimer, warningTimer>>
envVars == <<backend, nextPid, backendMax>>
vars == <<uiVars, runVars, activeFile, timerVars, now, calls, envVars,
          startResult, startToast, autoStops, since,
                   logsResult>>

Pids == 1..MaxPid

\* ---------------------------------------------------------------- helpers
\* a number a response does not carry: JS undefined
Undefined == -1

\* JS `a || b` on numbers: 0 and undefined are falsy
OrElse(a, b) == IF a # 0 /\ a # Undefined THEN a ELSE b

\* Math.floor(Date.now() / 1000)
NowSeconds == now \div 1000

\* the server names the model tries: empty, blank, and a valid one
ServerNames == { <<" ">>, <<"a">> }

\* !serverName.trim(): nothing but whitespace
TrimIsEmpty(serverName) == \A i \in 1..Len(serverName) : serverName[i] = " "

PidsOf(servers) == { servers[i].pid : i \in 1..Len(servers) }

RECURSIVE Filter(_, _)
\* servers.filter(server => server.pid !== pid)
Filter(servers, pid) ==
    IF servers = <<>> THEN <<>>
    ELSE IF Head(servers).pid # pid
         THEN <<Head(servers)>> \o Filter(Tail(servers), pid)
         ELSE Filter(Tail(servers), pid)

\* Math.max(0, prev - 1)
Decrement(prev) == IF prev - 1 > 0 THEN prev - 1 ELSE 0

\* ------------------------------------------------------------ remote calls
Call(kind, pid, by, name) ==
    [kind |-> kind, phase |-> "req", pid |-> pid, by |-> by, name |-> name,
     language |-> "", version |-> "", stdin |-> "",
     ok |-> FALSE, servers |-> <<>>, num |-> 0, old |-> FALSE]

InFlight == BagToSet(calls)

\* the calls in flight of the server lifecycle (initializeData's chain
\* included), and those to the providers
ServerKinds == {"runtimes", "list", "count", "start", "stop", "logs"}
RunKinds == {"execA", "execB"}

RECURSIVE Copies(_, _)
Copies(bag, cs) ==
    IF cs = {} THEN 0
    ELSE LET c == CHOOSE x \in cs : TRUE
         IN CopiesIn(c, bag) + Copies(bag, cs \ {c})

Outstanding == Copies(calls, { c \in InFlight : c.kind \in ServerKinds })
Running == Copies(calls, { c \in InFlight : c.kind \in RunKinds })

RECURSIVE AddCalls(_, _)
AddCalls(bag, cs) ==
    IF cs = <<>> THEN bag
    ELSE AddCalls(bag (+) SetToBag({Head(cs)}), Tail(cs))

Drop(c) == calls (-) SetToBag({c})

\* ------------------------------------------------------------ the effects
\* useEffect(..., [runningServers]): a 60 s interval while the list is not
\* empty, torn down and set up again whenever the list is replaced
AutoStopEffect(servers) ==
    IF Len(servers) > 0
    THEN [on |-> TRUE, due |-> now + AutoStopCheckMs]
    ELSE [on |-> FALSE, due |-> 0]

\* useEffect(..., [runningServers.length, serverWarning]): a 10 min interval
\* whose closure keeps the list it was created with; set up again only when
\* the length or the flag changes
WarningEffect(servers, warning) ==
    IF Len(servers) = Len(runningServers) /\ warning = serverWarning
    THEN warningTimer
    ELSE IF Len(servers) > 0 /\ ~warning
         THEN [on |-> TRUE, due |-> now + WarningCheckMs, servers |-> servers]
         ELSE [on |-> FALSE, due |-> 0, servers |-> <<>>]

\* history: since when each pid is in the list
Since(servers) ==
    [p \in Pids |->
        IF p \in PidsOf(servers)
        THEN (IF since[p].in THEN since[p] ELSE [in |-> TRUE, at |-> now])
        ELSE [in |-> FALSE, at |-> 0]]

\* setRunningServers(servers), with the effects that depend on the list
SetRunningServers(servers) ==
    /\ runningServers' = servers
    /\ autoStopTimer' = AutoStopEffect(servers)
    /\ warningTimer' = WarningEffect(servers, serverWarning)
    /\ since' = Since(servers)
    /\ UNCHANGED logsResult

\* setServerWarning(warning), with the effect that depends on the flag
SetServerWarning(warning) ==
    /\ serverWarning' = warning
    /\ warningTimer' = WarningEffect(runningServers, warning)

\* ------------------------------------------------------------ the backend
RECURSIVE ByPid(_, _)
\* the backend's processes as a list, in pid order
ByPid(procs, p) ==
    IF p > MaxPid THEN <<>>
    ELSE (IF \E s \in procs : s.pid = p
          THEN <<CHOOSE s \in procs : s.pid = p>> ELSE <<>>)
         \o ByPid(procs, p + 1)

\* execute.php handles a request: it answers success with the data the
\* context reads, or success = false
BackendAnswers(c) ==
    /\ c \in InFlight /\ c.phase = "req"
    /\ \/ /\ c.kind = "list"
          /\ calls' = Drop(c) (+) SetToBag({[c EXCEPT !.phase = "resp",
                 !.ok = TRUE, !.servers = ByPid(backend, 1), !.num = backendMax]})
          /\ UNCHANGED <<backend, nextPid>>
       \/ /\ c.kind = "count"
          /\ calls' = Drop(c) (+) SetToBag({[c EXCEPT !.phase = "resp",
                 !.ok = TRUE, !.num = Cardinality(backend)]})
          /\ UNCHANGED <<backend, nextPid>>
       \/ /\ c.kind = "start"
          /\ nextPid <= MaxPid
          /\ backendMax = Undefined \/ Cardinality(backend) < backendMax
          /\ LET s == [pid |-> nextPid, started_at |-> NowSeconds]
             IN /\ backend' = backend \cup {s}
                /\ nextPid' = nextPid + 1
                /\ calls' = Drop(c) (+) SetToBag({[c EXCEPT !.phase = "resp",
                       !.ok = TRUE, !.servers = <<s>>]})
       \/ /\ c.kind = "stop"
          /\ backend' = { s \in backend : s.pid # c.pid }
          /\ calls' = Drop(c) (+) SetToBag({[c EXCEPT !.phase = "resp", !.ok = TRUE]})
          /\ UNCHANGED nextPid
       \/ /\ c.kind = "logs"
          /\ calls' = Drop(c) (+) SetToBag({[c EXCEPT !.phase = "resp", !.ok = TRUE]})
          /\ UNCHANGED <<backend, nextPid>>
       \/ /\ c.kind \in {"list", "count", "start", "stop", "logs"}
          /\ calls' = Drop(c) (+) SetToBag({[c EXCEPT !.phase = "resp", !.ok = FALSE]})
          /\ UNCHANGED <<backend, nextPid>>
    /\ UNCHANGED <<uiVars, runVars, activeFile, timerVars, now, backendMax,
                   startResult, startToast, autoStops, since,
                   logsResult>>


\* ------------------------------------------------- languages and the file
\* the descriptor useState starts with: no language selected
NoLanguage == [language |-> "", version |-> "", aliases |-> {}]

\* what GET /runtimes of Provider B lists
Runtimes ==
    << [language |-> "javascript", version |-> "18", aliases |-> {"js"}],
       [language |-> "python", version |-> "3", aliases |-> {"py", "py3"}],
       [language |-> "python2", version |-> "2", aliases |-> {"py", "py2"}] >>

\* no file is open; an open file has its name as its dot-separated parts
NoFile == [name |-> <<>>]

\* lang-map's languages(extension): the names known for it, else itself
LangMapLanguages(extension) ==
    IF extension = "py" THEN {"python"}
    ELSE IF extension = "js" THEN {"javascript"}
    ELSE {extension}

RECURSIVE Find(_, _)
\* supportedLanguages.find(lang => aliases.includes(ext) || names.includes(lang))
Find(languages, extension) ==
    IF languages = <<>> THEN NoLanguage
    ELSE IF extension \in Head(languages).aliases
            \/ Head(languages).language \in LangMapLanguages(extension)
         THEN Head(languages)
         ELSE Find(Tail(languages), extension)

\* the language-detection effect, run when the file name or the list changes
DetectLanguage(languages, file, selected) ==
    IF languages = <<>> \/ file.name = <<>> THEN selected
    ELSE LET extension == file.name[Len(file.name)]
         IN IF extension # ""
            THEN (IF Find(languages, extension) # NoLanguage
                  THEN Find(languages, extension) ELSE selected)
            ELSE NoLanguage

\* ------------------------------------------- fetchRunningServers and co.
\* one entry of response.data.servers as a ServerProcess
ToServerProcess(server) ==
    [pid |-> server.pid,
     started_at |-> OrElse(server.started_at, NowSeconds)]

MapServers(servers) ==
    [i \in 1..Len(servers) |-> ToServerProcess(servers[i])]

\* what the caller awaiting fetchRunningServers does next: initializeData
\* goes on to fetchUserServers, startServer clears its flag and returns
AfterFetchRunningServers(c) ==
    /\ calls' = IF c.by = "init"
                THEN Drop(c) (+) SetToBag({Call("count", 0, "init", <<>>)})
                ELSE Drop(c)
    /\ isStartingServer' = IF c.by = "start" THEN FALSE ELSE isStartingServer
    /\ startResult' = IF c.by = "start" THEN "data" ELSE startResult
    /\ UNCHANGED startToast

\* fetchRunningServers after its await: response.data.success or not
FetchRunningServersReturns(c) ==
    /\ c \in InFlight /\ c.kind = "list" /\ c.phase = "resp"
    /\ IF c.ok
       THEN /\ SetRunningServers(MapServers(c.servers))
            /\ userServerLimit' = OrElse(c.num, userServerLimit)
       ELSE /\ SetRunningServers(<<>>)
            /\ UNCHANGED userServerLimit
    /\ AfterFetchRunningServers(c)
    /\ UNCHANGED <<serverWarning, userServerCount, autoStopWarning, runVars,
                   activeFile, refreshDue, now, envVars, autoStops>>

\* fetchRunningServers: the get throws (network error, timeout)
FetchRunningServersThrows(c) ==
    /\ c \in InFlight /\ c.kind = "list"
    /\ SetRunningServers(<<>>)
    /\ AfterFetchRunningServers(c)
    /\ UNCHANGED <<serverWarning, userServerLimit, userServerCount,
                   autoStopWarning, runVars, activeFile, refreshDue, now,
                   envVars, autoStops>>

\* fetchUserServers after its await
FetchUserServersReturns(c) ==
    /\ c \in InFlight /\ c.kind = "count" /\ c.phase = "resp"
    /\ userServerCount' = IF c.ok THEN c.num ELSE userServerCount
    /\ calls' = Drop(c)
    /\ UNCHANGED <<runningServers, serverWarning, isStartingServer,
                   userServerLimit, autoStopWarning, runVars, activeFile,
                   timerVars, now, envVars, startResult, startToast, autoStops, since,
                   logsResult>>

\* fetchUserServers: the get throws
FetchUserServersThrows(c) ==
    /\ c \in InFlight /\ c.kind = "count"
    /\ calls' = Drop(c)
    /\ UNCHANGED <<uiVars, runVars, activeFile, timerVars, now, envVars,
                   startResult, startToast, autoStops, since,
                   logsResult>>

\* initializeData after GET /runtimes: the languages are stored (and the
\* detection effect runs), then fetchRunningServers is awaited
InitializeReturns(c) ==
    /\ c \in InFlight /\ c.kind = "runtimes"
    /\ supportedLanguages' = Runtimes
    /\ selectedLanguage' = DetectLanguage(Runtimes, activeFile, selectedLanguage)
    /\ calls' = Drop(c) (+) SetToBag({Call("list", 0, "init", <<>>)})
    /\ UNCHANGED <<uiVars, input, output, isRunning, showInputCollector,
                   collectedInputs, runSignal, activeFile, timerVars, now,
                   envVars, startResult, startToast, autoStops, since,
                   logsResult>>

\* initializeData: GET /runtimes throws, nothing else is fetched
InitializeThrows(c) ==
    /\ c \in InFlight /\ c.kind = "runtimes"
    /\ calls' = Drop(c)
    /\ UNCHANGED <<uiVars, runVars, activeFile, timerVars, now, envVars,
                   startResult, startToast, autoStops, since,
                   logsResult>>

\* ------------------------------------------------------------ startServer
NoWarning == [show |-> FALSE, serverId |-> 0]

\* startServer without the check of the limit before the post
StartServerUnlimited(serverName) ==
    IF activeFile = NoFile \/ TrimIsEmpty(serverName)
    THEN /\ startResult' = "null"
         /\ startToast' = IF activeFile = NoFile THEN "no file" ELSE "no name"
         /\ UNCHANGED <<uiVars, runVars, activeFile, timerVars, now, calls,
                        envVars, autoStops, since,
                   logsResult>>
    ELSE /\ Outstanding < MaxCalls
         /\ isStartingServer' = TRUE
         /\ calls' = calls (+) SetToBag({Call("start", 0, "user", serverName)})
         /\ UNCHANGED <<runningServers, serverWarning, userServerLimit,
                        userServerCount, autoStopWarning, runVars, activeFile,
                        timerVars, now, envVars, startResult, startToast,
                        autoStops, since,
                   logsResult>>

\* startServer(serverName) up to its await: the early returns, then the post
StartServer(serverName) ==
    IF activeFile = NoFile \/ TrimIsEmpty(serverName)
       \/ userServerCount >= userServerLimit
    THEN /\ startResult' = "null"
         /\ startToast' = IF activeFile = NoFile THEN "no file"
                          ELSE IF TrimIsEmpty(serverName) THEN "no name"
                          ELSE "limit"
         /\ UNCHANGED <<uiVars, runVars, activeFile, timerVars, now, calls,
                        envVars, autoStops, since,
                   logsResult>>
    ELSE /\ Outstanding < MaxCalls
         /\ isStartingServer' = TRUE
         /\ calls' = calls (+) SetToBag({Call("start", 0, "user", serverName)})
         /\ UNCHANGED <<runningServers, serverWarning, userServerLimit,
                        userServerCount, autoStopWarning, runVars, activeFile,
                        timerVars, now, envVars, startResult, startToast, autoStops, since,
                   logsResult>>

\* the ServerProcess startServer builds from response.data
ServerData(c) ==
    [pid |-> c.servers[1].pid,
     started_at |-> OrElse(c.servers[1].started_at, NowSeconds)]

\* startServer that returns on success without the refresh of the list
StartServerReturnsNoRefresh(c) ==
    /\ c \in InFlight /\ c.kind = "start" /\ c.phase = "resp"
    /\ IF c.ok
       THEN /\ SetRunningServers(Append(runningServers, ServerData(c)))
            /\ userServerCount' = userServerCount + 1
            /\ calls' = Drop(c)
            /\ startToast' = "started"
            /\ isStartingServer' = FALSE
            /\ startResult' = "data"
       ELSE /\ isStartingServer' = FALSE
            /\ startResult' = "null"
            /\ startToast' = "failed"
            /\ calls' = Drop(c)
            /\ UNCHANGED <<runningServers, userServerCount, timerVars, since,
                           logsResult>>
    /\ UNCHANGED <<serverWarning, userServerLimit, autoStopWarning, runVars,
                   activeFile, refreshDue, now, envVars, autoStops>>

\* startServer after its await
StartServerReturns(c) ==
    /\ c \in InFlight /\ c.kind = "start" /\ c.phase = "resp"
    /\ IF c.ok
       THEN /\ SetRunningServers(Append(runningServers, ServerData(c)))
            /\ userServerCount' = userServerCount + 1
            /\ calls' = Drop(c) (+) SetToBag({Call("list", 0, "start", <<>>)})
            /\ startToast' = "started"
            /\ UNCHANGED <<isStartingServer, startResult>>
       ELSE /\ isStartingServer' = FALSE
            /\ startResult' = "null"
            /\ startToast' = "failed"
            /\ calls' = Drop(c)
            /\ UNCHANGED <<runningServers, userServerCount, timerVars, since,
                   logsResult>>
    /\ UNCHANGED <<serverWarning, userServerLimit, autoStopWarning, runVars,
                   activeFile, refreshDue, now, envVars, autoStops>>

\* startServer: the post throws
StartServerThrows(c) ==
    /\ c \in InFlight /\ c.kind = "start"
    /\ isStartingServer' = FALSE
    /\ startResult' = "null"
    /\ startToast' = "failed"
    /\ calls' = Drop(c)
    /\ UNCHANGED <<runningServers, serverWarning, userServerLimit,
                   userServerCount, autoStopWarning, runVars, activeFile,
                   timerVars, now, envVars, autoStops, since,
                   logsResult>>

\* ------------------------------------------- the views' handleStartServer
\* the names typed into the views: empty, blank, valid, and one with a
\* character the pattern does not allow
TypedNames == { <<>>, <<" ">>, <<"a">>, <<"a", "!">> }

\* the characters of the typed names that [a-zA-Z0-9_-] allows
PatternChars == { "a" }

\* /^[a-zA-Z0-9_-]{1,50}$/.test(serverName)
MatchesNamePattern(serverName) ==
    /\ Len(serverName) >= 1 /\ Len(serverName) <= MaxNameLength
    /\ \A i \in 1..Len(serverName) : serverName[i] \in PatternChars

\* RunView's handleStartServer: the name is checked against the pattern
\* before startServer is called
RunViewHandleStartServer(serverName) ==
    IF TrimIsEmpty(serverName) \/ ~MatchesNamePattern(serverName)
       \/ userServerCount >= userServerLimit
    THEN UNCHANGED vars
    ELSE StartServer(serverName)

\* ServerManager's handleStartServer: only the blank name and the limit are
\* checked before startServer is called
ServerManagerHandleStartServer(serverName) ==
    IF TrimIsEmpty(serverName) \/ userServerCount >= userServerLimit
    THEN UNCHANGED vars
    ELSE StartServer(serverName)

\* ------------------------------------------------------------- stopServer
\* stopServer(pid) up to its await, called by the UI ("user") or by
\* handleAutoStop ("auto")
StopServer(pid) ==
    /\ Outstanding < MaxCalls
    /\ calls' = calls (+) SetToBag({Call("stop", pid, "user", <<>>)})
    /\ UNCHANGED <<uiVars, runVars, activeFile, timerVars, now, envVars,
                   startResult, startToast, autoStops, since,
                   logsResult>>

\* history: an automatic stop call ended in failure
StopFailed(c) ==
    autoStops' = IF c.by = "auto"
                 THEN [autoStops EXCEPT ![c.pid].failed = @ + 1]
                 ELSE autoStops

\* stopServer after its await; handleAutoStop, when it is the caller, then
\* hides the auto-stop warning whatever the outcome was
StopServerReturns(c) ==
    /\ c \in InFlight /\ c.kind = "stop" /\ c.phase = "resp"
    /\ IF c.ok
       THEN /\ SetRunningServers(Filter(runningServers, c.pid))
            /\ userServerCount' = Decrement(userServerCount)
            /\ autoStopWarning' = NoWarning
            /\ calls' = Drop(c) (+) SetToBag({Call("list", 0, "none", <<>>)})
            /\ UNCHANGED autoStops
       ELSE /\ autoStopWarning' =
                   IF c.by = "auto" THEN NoWarning ELSE autoStopWarning
            /\ calls' = Drop(c)
            /\ StopFailed(c)
            /\ UNCHANGED <<runningServers, userServerCount, autoStopTimer,
                           warningTimer, since,
                   logsResult>>
    /\ UNCHANGED <<serverWarning, isStartingServer, userServerLimit, runVars,
                   activeFile, refreshDue, now, envVars, startResult, startToast>>

\* stopServer whose catch takes the server for stopped
StopServerThrowsRemoves(c) ==
    /\ c \in InFlight /\ c.kind = "stop"
    /\ SetRunningServers(Filter(runningServers, c.pid))
    /\ autoStopWarning' = IF c.by = "auto" THEN NoWarning ELSE autoStopWarning
    /\ calls' = Drop(c)
    /\ StopFailed(c)
    /\ UNCHANGED <<serverWarning, isStartingServer, userServerLimit,
                   userServerCount, runVars, activeFile, refreshDue, now,
                   envVars, startResult, startToast>>

\* stopServer: the post throws
StopServerThrows(c) ==
    /\ c \in InFlight /\ c.kind = "stop"
    /\ autoStopWarning' = IF c.by = "auto" THEN NoWarning ELSE autoStopWarning
    /\ calls' = Drop(c)
    /\ StopFailed(c)
    /\ UNCHANGED <<runningServers, serverWarning, isStartingServer,
                   userServerLimit, userServerCount, runVars, activeFile,
                   timerVars, now, envVars, startResult, startToast, since,
                   logsResult>>

\* --------------------------------------------------------- viewServerLogs
\* viewServerLogs(pid) up to its await
ViewServerLogs(pid) ==
    /\ Outstanding < MaxCalls
    /\ calls' = calls (+) SetToBag({Call("logs", pid, "user", <<>>)})
    /\ UNCHANGED <<uiVars, runVars, activeFile, timerVars, now, envVars,
                   startResult, startToast, autoStops, since, logsResult>>

\* viewServerLogs after its await: response.data.log, or null
ViewServerLogsReturns(c) ==
    /\ c \in InFlight /\ c.kind = "logs" /\ c.phase = "resp"
    /\ logsResult' = IF c.ok THEN "log" ELSE "null"
    /\ calls' = Drop(c)
    /\ UNCHANGED <<uiVars, runVars, activeFile, timerVars, now, envVars,
                   startResult, startToast, autoStops, since>>

\* viewServerLogs: the post throws
ViewServerLogsThrows(c) ==
    /\ c \in InFlight /\ c.kind = "logs"
    /\ logsResult' = "null"
    /\ calls' = Drop(c)
    /\ UNCHANGED <<uiVars, runVars, activeFile, timerVars, now, envVars,
                   startResult, startToast, autoStops, since>>

\* ------------------------------------------------ warnings and the refresh
\* keepServerRunning that refreshes the list as well
KeepServerRunningRefreshes ==
    /\ autoStopWarning' = NoWarning
    /\ calls' = calls (+) SetToBag({Call("list", 0, "none", <<>>)})
    /\ UNCHANGED <<runningServers, serverWarning, isStartingServer,
                   userServerLimit, userServerCount, runVars, activeFile,
                   timerVars, now, envVars, startResult, startToast, autoStops,
                   since, logsResult>>

KeepServerRunning ==
    /\ autoStopWarning' = NoWarning
    /\ UNCHANGED <<runningServers, serverWarning, isStartingServer,
                   userServerLimit, userServerCount, runVars, activeFile,
                   timerVars, now, calls, envVars, startResult, startToast, autoStops, since,
                   logsResult>>

\* acknowledgeServerWarning that hides the auto-stop warning as well
AcknowledgeBothWarnings ==
    /\ SetServerWarning(FALSE)
    /\ autoStopWarning' = NoWarning
    /\ UNCHANGED <<runningServers, isStartingServer, userServerLimit,
                   userServerCount, runVars, activeFile,
                   refreshDue, autoStopTimer, now, calls, envVars, startResult,
                   startToast, autoStops, since, logsResult>>

AcknowledgeServerWarning ==
    /\ SetServerWarning(FALSE)
    /\ UNCHANGED <<runningServers, isStartingServer, userServerLimit,
                   userServerCount, autoStopWarning, runVars, activeFile,
                   refreshDue, autoStopTimer, now, calls, envVars, startResult, startToast,
                   autoStops, since,
                   logsResult>>

\* fetchRunningServers called from the UI (the server manager's refresh)
FetchRunningServers ==
    /\ Outstanding < MaxCalls
    /\ calls' = calls (+) SetToBag({Call("list", 0, "none", <<>>)})
    /\ UNCHANGED <<uiVars, runVars, activeFile, timerVars, now, envVars,
                   startResult, startToast, autoStops, since,
                   logsResult>>

\* ------------------------------------------------------------- the timers
\* Date.now() - server.started_at * 1000
RunningTime(server) == now - server.started_at * 1000

\* when a repeating timer that ran at `now` runs next: one period after this
\* run, or, where the scheduler keeps the cadence of a late timer, at the
\* first multiple of the period after `now`
Reschedule(due, period) ==
    { now + period, due + ((now - due) \div period + 1) * period }

RECURSIVE AutoStopCalls(_)
\* the handleAutoStop calls of one pass, one per entry of 30 min or more
AutoStopCalls(servers) ==
    IF servers = <<>> THEN <<>>
    ELSE (IF RunningTime(Head(servers)) >= thirtyMinutes
          THEN <<Call("stop", Head(servers).pid, "auto", <<>>)>> ELSE <<>>)
         \o AutoStopCalls(Tail(servers))

Count(cs, pid) == Cardinality({ i \in 1..Len(cs) : cs[i].pid = pid })

\* the refresh interval's callback: fetchRunningServers(), fetchUserServers()
RefreshCallback ==
    /\ calls' = calls (+) SetToBag({Call("list", 0, "timer", <<>>)})
                      (+) SetToBag({Call("count", 0, "timer", <<>>)})
    /\ UNCHANGED <<uiVars, runVars, activeFile, autoStopTimer, warningTimer,
                   now, envVars, startResult, startToast, autoStops, since,
                   logsResult>>

\* the refresh interval is set from the mount until the provider's cleanup
\* clears it (no due time stands for the cleared interval)
Mounted == refreshDue # 0

\* the callback run by the 30 s interval of a clocked behaviour, whatever is
\* in flight
RefreshInterval ==
    /\ Mounted /\ refreshDue <= now
    /\ refreshDue' \in Reschedule(refreshDue, RefreshIntervalMs)
    /\ RefreshCallback

\* the callback where the clock is not followed: it may run at any moment
\* (its two calls count against the calls the model keeps in flight)
Refresh ==
    /\ Outstanding + 2 <= MaxCalls
    /\ UNCHANGED refreshDue
    /\ RefreshCallback

\* the forEach's first test: the server is in its minute of warning
InWindow(server) ==
    /\ RunningTime(server) >= twentyFiveMinutes
    /\ RunningTime(server) < twentyFiveMinutes + 60000

RECURSIVE LastInWindow(_, _)
\* the warning the forEach leaves behind: the last server in [25, 26) min
LastInWindow(servers, warning) ==
    IF servers = <<>> THEN warning
    ELSE LastInWindow(Tail(servers),
            IF InWindow(Head(servers))
            THEN [show |-> TRUE, serverId |-> Head(servers).pid]
            ELSE warning)

\* the pids the forEach calls setAutoStopWarning({show: true, ...}) for
WarnedPids(servers) ==
    { servers[i].pid : i \in { j \in 1..Len(servers) : InWindow(servers[j]) } }

\* one run of the auto-stop interval's callback over the list it captured
AutoStopInterval ==
    /\ autoStopTimer.on /\ autoStopTimer.due <= now
    /\ autoStopWarning' = LastInWindow(runningServers, autoStopWarning)
    /\ calls' = AddCalls(calls, AutoStopCalls(runningServers))
    /\ autoStops' = [p \in Pids |->
          [autoStops[p] EXCEPT
              !.issued = @ + Count(AutoStopCalls(runningServers), p),
              !.warned = @ + (IF p \in WarnedPids(runningServers) THEN 1 ELSE 0),
              !.shown = @ \/ (autoStopWarning'.show /\ autoStopWarning'.serverId = p
                              /\ p \in WarnedPids(runningServers))]]
    /\ \E next \in Reschedule(autoStopTimer.due, AutoStopCheckMs) :
          autoStopTimer' = [autoStopTimer EXCEPT !.due = next]
    /\ UNCHANGED <<runningServers, serverWarning, isStartingServer,
                   userServerLimit, userServerCount, runVars, activeFile,
                   refreshDue, warningTimer, now, envVars, startResult, startToast, since,
                   logsResult>>

\* longRunningServers of the resource-warning check, as pids
LongRunning(servers) ==
    { servers[i].pid :
        i \in { j \in 1..Len(servers) : RunningTime(servers[j]) > twentyMinutes } }

\* one run of the resource-warning interval's callback over its captured list
WarningInterval ==
    /\ warningTimer.on /\ warningTimer.due <= now
    /\ IF LongRunning(warningTimer.servers) # {}
       THEN /\ SetServerWarning(TRUE)
            /\ autoStops' = [p \in Pids |->
                  [autoStops[p] EXCEPT
                      !.resource = @ + (IF p \in LongRunning(warningTimer.servers)
                                        THEN 1 ELSE 0)]]
       ELSE /\ \E next \in Reschedule(warningTimer.due, WarningCheckMs) :
                  warningTimer' = [warningTimer EXCEPT !.due = next]
            /\ UNCHANGED <<serverWarning, autoStops>>
    /\ UNCHANGED <<runningServers, isStartingServer, userServerLimit,
                   userServerCount, autoStopWarning, runVars, activeFile,
                   refreshDue, autoStopTimer, now, calls, envVars, startResult, startToast,
                   since,
                   logsResult>>

\* ---------------------------------------------------------------- unmount
\* an unmount whose cleanup leaves the auto-stop interval running
UnmountKeepsAutoStop ==
    /\ Mounted
    /\ refreshDue' = 0
    /\ warningTimer' = [on |-> FALSE, due |-> 0, servers |-> <<>>]
    /\ UNCHANGED <<uiVars, runVars, activeFile, autoStopTimer, now, calls,
                   envVars, startResult, startToast, autoStops, since,
                   logsResult>>

\* the provider unmounts: the cleanup of each interval effect runs
\* clearInterval; the calls in flight are not aborted
Unmount ==
    /\ Mounted
    /\ refreshDue' = 0
    /\ autoStopTimer' = [on |-> FALSE, due |-> 0]
    /\ warningTimer' = [on |-> FALSE, due |-> 0, servers |-> <<>>]
    /\ UNCHANGED <<uiVars, runVars, activeFile, now, calls, envVars,
                   startResult, startToast, autoStops, since,
                   logsResult>>

\* what an async function of the unmounted provider still sends once its
\* await has settled: initializeData goes on to the two fetches, a
\* successful stopServer to fetchRunningServers
FollowUps(c, returned) ==
    IF c.kind = "runtimes" /\ returned
    THEN SetToBag({Call("list", 0, "init", <<>>)})
    ELSE IF c.kind = "list" /\ c.by = "init"
    THEN SetToBag({Call("count", 0, "init", <<>>)})
    ELSE IF c.kind = "stop" /\ returned /\ c.ok
    THEN SetToBag({Call("list", 0, "none", <<>>)})
    ELSE EmptyBag

\* an await settles after the unmount: the state setters of the unmounted
\* provider do nothing and no effect runs, the function itself goes on
SettlesUnmounted(c, returned) ==
    /\ ~Mounted
    /\ c \in InFlight /\ c.kind \in {"runtimes", "list", "count", "stop"}
    /\ returned => c.kind = "runtimes" \/ c.phase = "resp"
    /\ calls' = Drop(c) (+) FollowUps(c, returned)
    /\ IF c.kind = "stop" /\ ~(returned /\ c.ok)
       THEN StopFailed(c) ELSE UNCHANGED autoStops
    /\ UNCHANGED <<uiVars, runVars, activeFile, timerVars, now, envVars,
                   startResult, startToast, since,
                   logsResult>>

\* calls through codeeditorcloudInstance, which times out after 30 s
TimedKinds == {"list", "count", "start", "stop", "logs", "execA"}
TimedCalls == { c \in InFlight : c.kind \in TimedKinds }

\* a call through codeeditorcloudInstance is rejected 30 s after it was sent:
\* one that has been in flight over a tick is over before the next tick; one
\* sent at a tick may still be in flight when the callbacks of the next run
Expires(c) == Tick >= AxiosTimeoutMs /\ c.old

\* the clock moves on by one tick: no callback is later than `late` ticks,
\* and the calls that time out before the next tick are over
AdvanceLate(ticks, late) ==
    /\ now < MountTime + ticks * Tick
    /\ Mounted => refreshDue + late * Tick > now
    /\ autoStopTimer.on => autoStopTimer.due + late * Tick > now
    /\ warningTimer.on => warningTimer.due + late * Tick > now
    /\ \A c \in TimedCalls : ~Expires(c)
    /\ now' = now + Tick
    /\ calls' = [d \in { [c EXCEPT !.old = c.kind \in TimedKinds] : c \in InFlight }
                    |-> calls[[d EXCEPT !.old = FALSE]]]
    /\ UNCHANGED <<uiVars, runVars, activeFile, timerVars, envVars,
                   startResult, startToast, autoStops, since,
                   logsResult>>

\* the clock where no callback is later than the scheduler usually makes it
Advance(ticks) == AdvanceLate(ticks, MaxLate)

\* ------------------------------------------------------------ executeCode
\* a || b on strings: the empty string is falsy
OrElseText(a, b) == IF a # "" THEN a ELSE b

\* the inputs the model types into the stdin box
Inputs == {"1"}
\* what the input collector may hold: text fields and the keys of file fields
CollectedSets ==
    { [textInputs |-> <<"2", "3">>, fileInputs |-> {}],
      [textInputs |-> <<"2">>, fileInputs |-> {"data"}] }
\* what the providers may print
Outputs == {"out"}
Errors == {"", "err"}

\* a call to Provider A (execute.php) or Provider B (/execute); it keeps the
\* language, version and input of the closure that issued it
ExecCall(kind, by, lang, stdin) ==
    [Call(kind, 0, by, <<>>) EXCEPT
        !.language = lang.language, !.version = lang.version, !.stdin = stdin]

\* executeCode sending to Provider A whatever has aliases
FirstCallAnyAlias(lang, inputs, stdin) ==
    IF lang.language = "python" /\ inputs.fileInputs # {}
    THEN ExecCall("execA", "attach", lang, stdin)
    ELSE IF lang.language = "python" \/ lang.aliases # {}
         THEN ExecCall("execA", "first", lang, stdin)
         ELSE ExecCall("execB", "direct", lang, stdin)

\* the request executeCode sends first: Provider A with the files, Provider A
\* with fallback, or Provider B directly
FirstCall(lang, inputs, stdin) ==
    IF lang.language = "python" /\ inputs.fileInputs # {}
    THEN ExecCall("execA", "attach", lang, stdin)
    ELSE IF lang.language = "python" \/ "py" \in lang.aliases
         THEN ExecCall("execA", "first", lang, stdin)
         ELSE ExecCall("execB", "direct", lang, stdin)

\* executeCode() up to its first await
ExecuteCode ==
    /\ Running < MaxCalls
    /\ IF activeFile = NoFile
       THEN UNCHANGED <<isRunning, calls>>
       ELSE /\ isRunning' = TRUE
            /\ calls' = calls (+) SetToBag({FirstCall(selectedLanguage,
                                                    collectedInputs, input)})
    /\ UNCHANGED <<uiVars, input, output, supportedLanguages, selectedLanguage,
                   showInputCollector, collectedInputs, runSignal, activeFile,
                   timerVars, now, envVars, startResult, startToast, autoStops, since,
                   logsResult>>

\* runCode that opens the collector and goes on to executeCode all the same
RunCodeRunsAnyway(needsInput) ==
    /\ Running < MaxCalls
    /\ IF selectedLanguage.language = "" \/ activeFile = NoFile
       THEN UNCHANGED <<showInputCollector, isRunning, calls>>
       ELSE /\ showInputCollector' = (showInputCollector \/ needsInput)
            /\ isRunning' = TRUE
            /\ calls' = calls (+) SetToBag({FirstCall(selectedLanguage,
                                                    collectedInputs, input)})
    /\ UNCHANGED <<uiVars, input, output, supportedLanguages, selectedLanguage,
                   collectedInputs, runSignal, activeFile, timerVars, now,
                   envVars, startResult, startToast, autoStops, since,
                   logsResult>>

\* runCode(); needsInput is what requiresInputCollection answers
RunCode(needsInput) ==
    /\ Running < MaxCalls
    /\ IF selectedLanguage.language = "" \/ activeFile = NoFile
       THEN UNCHANGED <<showInputCollector, isRunning, calls>>
       ELSE IF needsInput
            THEN /\ showInputCollector' = TRUE
                 /\ UNCHANGED <<isRunning, calls>>
            ELSE /\ isRunning' = TRUE
                 /\ calls' = calls (+) SetToBag({FirstCall(selectedLanguage,
                                                         collectedInputs, input)})
                 /\ UNCHANGED showInputCollector
    /\ UNCHANGED <<uiVars, input, output, supportedLanguages, selectedLanguage,
                   collectedInputs, runSignal, activeFile, timerVars, now,
                   envVars, startResult, startToast, autoStops, since,
                   logsResult>>

RECURSIVE Join(_)
\* Object.values(textInputs).join('\n')
Join(texts) ==
    IF texts = <<>> THEN ""
    ELSE IF Len(texts) = 1 THEN Head(texts)
         ELSE Head(texts) \o "\n" \o Join(Tail(texts))

\* submitCollectedInputs(): executeCode is the one of the current render,
\* so it still reads the input of before setInput
SubmitCollectedInputs ==
    /\ Running < MaxCalls
    /\ input' = Join(collectedInputs.textInputs)
    /\ showInputCollector' = FALSE
    /\ IF activeFile = NoFile
       THEN UNCHANGED <<isRunning, calls>>
       ELSE /\ isRunning' = TRUE
            /\ calls' = calls (+) SetToBag({FirstCall(selectedLanguage,
                                                    collectedInputs, input)})
    /\ UNCHANGED <<uiVars, output, supportedLanguages, selectedLanguage,
                   collectedInputs, runSignal, activeFile, timerVars, now,
                   envVars, startResult, startToast, autoStops, since,
                   logsResult>>

\* executeCode after the await of a Provider A post
\* response.data = {success, output | error}
ProviderAReturns(c, success, text) ==
    /\ c \in InFlight /\ c.kind = "execA"
    /\ output' = IF success THEN text ELSE OrElseText(text, "Execution failed")
    /\ isRunning' = FALSE
    /\ runSignal' = "success"
    /\ calls' = Drop(c)
    /\ UNCHANGED <<uiVars, input, supportedLanguages, selectedLanguage,
                   showInputCollector, collectedInputs, activeFile, timerVars,
                   now, envVars, startResult, startToast, autoStops, since,
                   logsResult>>

\* a Provider A post throws and no catch falls back
ProviderAThrowsNoFallback(c) ==
    /\ c \in InFlight /\ c.kind = "execA"
    /\ isRunning' = FALSE
    /\ runSignal' = "failed"
    /\ calls' = Drop(c)
    /\ UNCHANGED <<uiVars, input, output, supportedLanguages, selectedLanguage,
                   showInputCollector, collectedInputs, activeFile, timerVars,
                   now, envVars, startResult, startToast, autoStops, since,
                   logsResult>>

\* a Provider A post throws and the fallback follows whatever post it was
ProviderAThrowsAlwaysFallback(c) ==
    /\ c \in InFlight /\ c.kind = "execA"
    /\ calls' = Drop(c) (+) SetToBag({ExecCall("execB", "fallback",
             [language |-> c.language, version |-> c.version], c.stdin)})
    /\ UNCHANGED <<uiVars, input, output, isRunning, runSignal,
                   supportedLanguages, selectedLanguage,
                   showInputCollector, collectedInputs, activeFile, timerVars,
                   now, envVars, startResult, startToast, autoStops, since,
                   logsResult>>

\* a Provider A post throws: the inner catch falls back to Provider B, the
\* multipart post has only the outer catch
ProviderAThrows(c) ==
    /\ c \in InFlight /\ c.kind = "execA"
    /\ IF c.by = "first"
       THEN /\ calls' = Drop(c) (+) SetToBag({ExecCall("execB", "fallback",
                    [language |-> c.language, version |-> c.version], c.stdin)})
            /\ UNCHANGED <<isRunning, runSignal>>
       ELSE /\ isRunning' = FALSE
            /\ runSignal' = "failed"
            /\ calls' = Drop(c)
    /\ UNCHANGED <<uiVars, input, output, supportedLanguages, selectedLanguage,
                   showInputCollector, collectedInputs, activeFile, timerVars,
                   now, envVars, startResult, startToast, autoStops, since,
                   logsResult>>

\* the Provider B branch showing stdout whenever there is any
ProviderBReturnsStdoutFirst(c, stdout, stderr) ==
    /\ c \in InFlight /\ c.kind = "execB"
    /\ output' = IF stdout # "" THEN stdout ELSE stderr
    /\ isRunning' = FALSE
    /\ runSignal' = "success"
    /\ calls' = Drop(c)
    /\ UNCHANGED <<uiVars, input, supportedLanguages, selectedLanguage,
                   showInputCollector, collectedInputs, activeFile, timerVars,
                   now, envVars, startResult, startToast, autoStops, since,
                   logsResult>>

\* executeCode after the await of a Provider B post
\* response.data = {run: {stdout, stderr}}
ProviderBReturns(c, stdout, stderr) ==
    /\ c \in InFlight /\ c.kind = "execB"
    /\ output' = IF stderr # "" THEN stderr ELSE stdout
    /\ isRunning' = FALSE
    /\ runSignal' = "success"
    /\ calls' = Drop(c)
    /\ UNCHANGED <<uiVars, input, supportedLanguages, selectedLanguage,
                   showInputCollector, collectedInputs, activeFile, timerVars,
                   now, envVars, startResult, startToast, autoStops, since,
                   logsResult>>

\* a Provider B post throws and the catch leaves the running flag alone
ProviderBThrowsKeepsRunning(c) ==
    /\ c \in InFlight /\ c.kind = "execB"
    /\ runSignal' = "failed"
    /\ calls' = Drop(c)
    /\ UNCHANGED <<uiVars, input, output, isRunning, supportedLanguages,
                   selectedLanguage,
                   showInputCollector, collectedInputs, activeFile, timerVars,
                   now, envVars, startResult, startToast, autoStops, since,
                   logsResult>>

\* a Provider B post throws: the outer catch
ProviderBThrows(c) ==
    /\ c \in InFlight /\ c.kind = "execB"
    /\ isRunning' = FALSE
    /\ runSignal' = "failed"
    /\ calls' = Drop(c)
    /\ UNCHANGED <<uiVars, input, output, supportedLanguages, selectedLanguage,
                   showInputCollector, collectedInputs, activeFile, timerVars,
                   now, envVars, startResult, startToast, autoStops, since,
                   logsResult>>

\* ------------------------------------------------ setters of the context
SetInput(text) ==
    /\ input' = text
    /\ UNCHANGED <<uiVars, output, isRunning, supportedLanguages,
                   selectedLanguage, showInputCollector, collectedInputs,
                   runSignal, activeFile, timerVars, now, calls, envVars,
                   startResult, startToast, autoStops, since,
                   logsResult>>

SetSelectedLanguage(lang) ==
    /\ selectedLanguage' = lang
    /\ UNCHANGED <<uiVars, input, output, isRunning, supportedLanguages,
                   showInputCollector, collectedInputs, runSignal, activeFile,
                   timerVars, now, calls, envVars, startResult, startToast, autoStops, since,
                   logsResult>>

SetShowInputCollector(show) ==
    /\ showInputCollector' = show
    /\ UNCHANGED <<uiVars, input, output, isRunning, supportedLanguages,
                   selectedLanguage, collectedInputs, runSignal, activeFile,
                   timerVars, now, calls, envVars, startResult, startToast, autoStops, since,
                   logsResult>>

SetCollectedInputs(inputs) ==
    /\ collectedInputs' = inputs
    /\ UNCHANGED <<uiVars, input, output, isRunning, supportedLanguages,
                   selectedLanguage, showInputCollector, runSignal, activeFile,
                   timerVars, now, calls, envVars, startResult, startToast, autoStops, since,
                   logsResult>>

\* the files the user may switch between: a Python file, a JavaScript file,
\* a text file and a name that ends with a dot
Files ==
    { [name |-> <<"main", "py">>], [name |-> <<"app", "js">>],
      [name |-> <<"notes", "txt">>], [name |-> <<"draft", "">>] }

\* the file system context makes another file (or none) the active one; the
\* language-detection effect runs again when the name differs
OpenFile(file) ==
    /\ file # activeFile
    /\ activeFile' = file
    /\ selectedLanguage' =
          IF file.name = activeFile.name THEN selectedLanguage
          ELSE DetectLanguage(supportedLanguages, file, selectedLanguage)
    /\ UNCHANGED <<uiVars, input, output, isRunning, supportedLanguages,
                   showInputCollector, collectedInputs, runSignal,
                   timerVars, now, calls, envVars, startResult, startToast, autoStops, since,
                   logsResult>>

\* ------------------------------------------------------------------- Init
\* ages (in seconds, at mount) of the servers the user may already have
PreExistingAges == { 29 * 60 + 30 }

\* the backend at mount: nothing, or one server left from an earlier session
InitialBackends ==
    { {} } \cup
    { { [pid |-> 1, started_at |-> MountTime \div 1000 - a] } : a \in PreExistingAges }

\* max_servers_per_user as the backend declares it, if it does
DeclaredLimits == {Undefined, 1}

InitContext ==
    /\ runningServers = <<>>
    /\ serverWarning = FALSE
    /\ isStartingServer = FALSE
    /\ userServerLimit = DefaultServerLimit
    /\ userServerCount = 0
    /\ autoStopWarning = NoWarning
    /\ input = ""
    /\ output = ""
    /\ isRunning = FALSE
    /\ supportedLanguages = <<>>
    /\ selectedLanguage = NoLanguage
    /\ showInputCollector = FALSE
    /\ collectedInputs = [textInputs |-> <<>>, fileInputs |-> {}]
    /\ runSignal = "none"
    /\ refreshDue = MountTime + RefreshIntervalMs
    /\ autoStopTimer = [on |-> FALSE, due |-> 0]
    /\ warningTimer = [on |-> FALSE, due |-> 0, servers |-> <<>>]
    /\ now = MountTime
    /\ calls = SetToBag({Call("runtimes", 0, "init", <<>>)})
    /\ startResult = "none"
    /\ startToast = "none"
    /\ autoStops = [p \in Pids |-> [issued |-> 0, failed |-> 0, warned |-> 0,
                                     shown |-> FALSE, resource |-> 0]]
    /\ since = [p \in Pids |-> [in |-> FALSE, at |-> 0]]
    /\ logsResult = "none"

InitBackend ==
    /\ backend \in InitialBackends
    /\ nextPid = Cardinality(backend) + 1
    /\ backendMax \in { m \in DeclaredLimits : m = Undefined \/ Cardinality(backend) <= m }

Init ==
    /\ InitContext
    /\ InitBackend
    /\ activeFile \in {NoFile, [name |-> <<"main", "py">>]}

\* ------------------------------------------------------------------- Next
Network ==
    \/ \E c \in InFlight : BackendAnswers(c)
    \/ \E c \in InFlight : InitializeReturns(c)
    \/ \E c \in InFlight : InitializeThrows(c)
    \/ \E c \in InFlight : FetchRunningServersReturns(c)
    \/ \E c \in InFlight : FetchRunningServersThrows(c)
    \/ \E c \in InFlight : FetchUserServersReturns(c)
    \/ \E c \in InFlight : FetchUserServersThrows(c)
    \/ \E c \in InFlight : StartServerReturns(c)
    \/ \E c \in InFlight : StartServerThrows(c)
    \/ \E c \in InFlight : StopServerReturns(c)
    \/ \E c \in InFlight : StopServerThrows(c)

ServerCommands ==
    \/ \E serverName \in ServerNames : StartServer(serverName)
    \/ \E pid \in Pids : StopServer(pid)
    \/ KeepServerRunning
    \/ AcknowledgeServerWarning
    \/ FetchRunningServers

\* the server lifecycle with the clock held: commands, the refresh and the
\* remote calls in every interleaving
Next ==
    \/ ServerCommands
    \/ Refresh
    \/ Network

Spec == Init /\ [][Next]_vars

\* the log viewer: a session in which the user asks for the logs of servers
NextLogs ==
    \/ \E pid \in Pids : ViewServerLogs(pid)
    \/ \E c \in InFlight : BackendAnswers(c)
    \/ \E c \in InFlight : InitializeReturns(c)
    \/ \E c \in InFlight : InitializeThrows(c)
    \/ \E c \in InFlight : FetchRunningServersReturns(c)
    \/ \E c \in InFlight : FetchRunningServersThrows(c)
    \/ \E c \in InFlight : FetchUserServersReturns(c)
    \/ \E c \in InFlight : FetchUserServersThrows(c)
    \/ \E c \in InFlight : ViewServerLogsReturns(c)
    \/ \E c \in InFlight : ViewServerLogsThrows(c)

SpecLogs == Init /\ [][NextLogs]_vars

\* the two views that start servers: a session in which the user types names
\* and presses the start button of either view
NextViews ==
    \/ \E serverName \in TypedNames : RunViewHandleStartServer(serverName)
    \/ \E serverName \in TypedNames : ServerManagerHandleStartServer(serverName)
    \/ \E pid \in Pids : StopServer(pid)
    \/ \E c \in InFlight : BackendAnswers(c)
    \/ \E c \in InFlight : InitializeReturns(c)
    \/ \E c \in InFlight : InitializeThrows(c)
    \/ \E c \in InFlight : FetchRunningServersReturns(c)
    \/ \E c \in InFlight : FetchRunningServersThrows(c)
    \/ \E c \in InFlight : FetchUserServersReturns(c)
    \/ \E c \in InFlight : FetchUserServersThrows(c)
    \/ \E c \in InFlight : StartServerReturns(c)
    \/ \E c \in InFlight : StartServerThrows(c)
    \/ \E c \in InFlight : StopServerReturns(c)
    \/ \E c \in InFlight : StopServerThrows(c)

SpecViews == Init /\ [][NextViews]_vars

\* the timer subsystem: a session that finds a server of an earlier session,
\* with the clock running
InitTimers ==
    /\ InitContext
    /\ backend \in InitialBackends \ { {} }
    /\ nextPid = Cardinality(backend) + 1
    /\ backendMax = Undefined
    /\ activeFile = [name |-> <<"main", "py">>]

NetworkTimers ==
    \/ \E c \in InFlight : BackendAnswers(c)
    \/ \E c \in InFlight : InitializeReturns(c)
    \/ \E c \in InFlight : InitializeThrows(c)
    \/ \E c \in InFlight : FetchRunningServersReturns(c)
    \/ \E c \in InFlight : FetchRunningServersThrows(c)
    \/ \E c \in InFlight : FetchUserServersReturns(c)
    \/ \E c \in InFlight : FetchUserServersThrows(c)
    \/ \E c \in InFlight : StopServerReturns(c)
    \/ \E c \in InFlight : StopServerThrows(c)

\* the steps of a timed behaviour; the network answers fast enough that at
\* most MaxSlow calls are carried over a tick of the clock (such a call may
\* still time out), while the callbacks run whatever is in flight
NextTimers ==
    \/ \E pid \in 1..(nextPid - 1) : StopServer(pid)
    \/ KeepServerRunning
    \/ AcknowledgeServerWarning
    \/ NetworkTimers
    \/ RefreshInterval
    \/ AutoStopInterval
    \/ Outstanding <= MaxSlow /\ Advance(MaxTicks)

SpecTimers == InitTimers /\ [][NextTimers]_vars


\* the timer subsystem around the minute of warning: a session that finds a
\* server of an earlier session that is about to be 25 minutes old
InitWindow ==
    /\ InitContext
    /\ backend = { [pid |-> 1, started_at |-> MountTime \div 1000 - (24 * 60 + 30)] }
    /\ nextPid = 2
    /\ backendMax = Undefined
    /\ activeFile = [name |-> <<"main", "py">>]

SpecWindow == InitWindow /\ [][NextTimers]_vars

\* the same session a minute earlier, in a page whose timers the scheduler
\* holds back (a throttled background tab, a machine that was suspended): a
\* callback may run up to SlowLate ticks after it was due
InitLate ==
    /\ InitContext
    /\ backend = { [pid |-> 1, started_at |-> MountTime \div 1000 - (23 * 60 + 30)] }
    /\ nextPid = 2
    /\ backendMax = Undefined
    /\ activeFile = [name |-> <<"main", "py">>]

NextLate ==
    \/ \E pid \in 1..(nextPid - 1) : StopServer(pid)
    \/ KeepServerRunning
    \/ NetworkTimers
    \/ RefreshInterval
    \/ AutoStopInterval
    \/ Outstanding <= MaxSlow /\ AdvanceLate(LateTicks, SlowLate)

SpecLate == InitLate /\ [][NextLate]_vars

\* the timer subsystem over a backend that omits started_at (0: the field
\* is not in the answer) for the server it lists
InitOmitted ==
    /\ InitContext
    /\ backend = { [pid |-> 1, started_at |-> 0] }
    /\ nextPid = 2
    /\ backendMax = Undefined
    /\ activeFile = [name |-> <<"main", "py">>]

SpecOmitted == InitOmitted /\ [][NextTimers]_vars

\* ages (in seconds, at mount) of two servers of an earlier session: the
\* first about to reach 30 minutes, the second about to reach 25
PairAges == <<29 * 60 + 30, 24 * 60 + 30>>

\* the timer subsystem over two servers of an earlier session
InitPair ==
    /\ InitContext
    /\ backend = { [pid |-> p, started_at |-> MountTime \div 1000 - PairAges[p]] :
                    p \in 1..2 }
    /\ nextPid = 3
    /\ backendMax = Undefined
    /\ activeFile = [name |-> <<"main", "py">>]

NextPair ==
    \/ \E pid \in 1..(nextPid - 1) : StopServer(pid)
    \/ KeepServerRunning
    \/ NetworkTimers
    \/ RefreshInterval
    \/ AutoStopInterval
    \/ Outstanding <= MaxSlow /\ Advance(PairTicks)

SpecPair == InitPair /\ [][NextPair]_vars


\* the resource warning: a session that finds a server of an earlier session
\* that is 10 minutes old, followed for as long as two periods of the
\* resource-warning check take, with a backend that answers every call
InitWarning ==
    /\ InitContext
    /\ backend = { [pid |-> 1, started_at |-> MountTime \div 1000 - 10 * 60] }
    /\ nextPid = 2
    /\ backendMax = Undefined
    /\ activeFile = [name |-> <<"main", "py">>]

NetworkWarning ==
    \/ \E c \in InFlight :
          /\ BackendAnswers(c)
          /\ \A d \in BagToSet(calls') : d.phase = "resp" => d.ok
    \/ \E c \in InFlight : InitializeReturns(c)
    \/ \E c \in InFlight : FetchRunningServersReturns(c)
    \/ \E c \in InFlight : FetchUserServersReturns(c)
    \/ \E c \in InFlight : StopServerReturns(c)

NextWarning ==
    \/ AcknowledgeServerWarning
    \/ NetworkWarning
    \/ RefreshInterval
    \/ AutoStopInterval
    \/ WarningInterval
    \/ Outstanding <= MaxSlow /\ Advance(WarningTicks)

SpecWarning == InitWarning /\ [][NextWarning]_vars


\* the server lifecycle against backends of every quota: none declared, a
\* quota of no server at all, of one and of two
QuotaLimits == {Undefined, 0, 1, 2}

InitQuota ==
    /\ InitContext
    /\ backend \in InitialBackends
    /\ nextPid = Cardinality(backend) + 1
    /\ backendMax \in { m \in QuotaLimits : m = Undefined \/ Cardinality(backend) <= m }
    /\ activeFile = [name |-> <<"main", "py">>]

SpecQuota == InitQuota /\ [][Next]_vars

\* the provider's life up to and after its unmount, with the clock running
\* (the resource-warning interval, first due after 10 minutes, is set and
\* cleared but does not come due within these ticks)
TeardownTicks == 3

NextTeardown ==
    \/ Mounted /\ \E pid \in 1..(nextPid - 1) : StopServer(pid)
    \/ Mounted /\ KeepServerRunning
    \/ Mounted /\ AcknowledgeServerWarning
    \/ Mounted /\ \E c \in InFlight : InitializeReturns(c)
    \/ Mounted /\ \E c \in InFlight : InitializeThrows(c)
    \/ Mounted /\ \E c \in InFlight : FetchRunningServersReturns(c)
    \/ Mounted /\ \E c \in InFlight : FetchRunningServersThrows(c)
    \/ Mounted /\ \E c \in InFlight : FetchUserServersReturns(c)
    \/ Mounted /\ \E c \in InFlight : FetchUserServersThrows(c)
    \/ Mounted /\ \E c \in InFlight : StopServerReturns(c)
    \/ Mounted /\ \E c \in InFlight : StopServerThrows(c)
    \/ \E c \in InFlight, returned \in BOOLEAN : SettlesUnmounted(c, returned)
    \/ \E c \in InFlight : BackendAnswers(c)
    \/ Unmount
    \/ RefreshInterval
    \/ AutoStopInterval
    \/ Outstanding <= MaxSlow /\ Advance(TeardownTicks)

SpecTeardown == InitTimers /\ [][NextTeardown]_vars

\* the execution router: a session with any file open, or none; the
\* server calls of initializeData are left pending, they touch no state of
\* the router
InitRun ==
    /\ InitContext
    /\ backend = {}
    /\ nextPid = 1
    /\ backendMax = Undefined
    /\ activeFile \in {NoFile, [name |-> <<"main", "py">>], [name |-> <<"notes", "txt">>]}

NextRun ==
    \/ ExecuteCode
    \/ \E needsInput \in BOOLEAN : RunCode(needsInput)
    \/ SubmitCollectedInputs
    \/ \E text \in Inputs : SetInput(text)
    \/ \E i \in 1..Len(supportedLanguages) : SetSelectedLanguage(supportedLanguages[i])
    \/ \E show \in BOOLEAN : SetShowInputCollector(show)
    \/ \E inputs \in CollectedSets : SetCollectedInputs(inputs)
    \/ \E c \in InFlight, success \in BOOLEAN, text \in Outputs \cup Errors :
          ProviderAReturns(c, success, text)
    \/ \E c \in InFlight : ProviderAThrows(c)
    \/ \E c \in InFlight, stdout \in Outputs, stderr \in Errors :
          ProviderBReturns(c, stdout, stderr)
    \/ \E c \in InFlight : ProviderBThrows(c)
    \/ \E c \in InFlight : InitializeReturns(c)
    \/ \E c \in InFlight : InitializeThrows(c)

SpecRun == InitRun /\ [][NextRun]_vars

\* the execution router while the user switches between files
NextFiles ==
    \/ NextRun
    \/ \E file \in Files \cup {NoFile} : OpenFile(file)

SpecFiles == InitRun /\ [][NextFiles]_vars

\* ================================================================ claims
\* ----------------------------------------------------- server lifecycle
\* C1: startServer invoked while userServerCount >= userServerLimit (with a
\* file open and a name given) is rejected locally: it returns null, no call
\* is sent, and runningServers, userServerCount and userServerLimit stay as
\* they are.
C1_RejectedAtLimit ==
    [][\A serverName \in ServerNames :
          (StartServer(serverName) /\ userServerCount >= userServerLimit)
          => /\ startResult' = "null"
             /\ calls' = calls
             /\ UNCHANGED <<runningServers, userServerCount, userServerLimit>>]_vars

\* C1: one successful start has brought the count to the limit of 1, and the
\* attempt that followed was rejected with the limit toast, nothing in flight
C1_Witness ==
    /\ startToast = "limit" /\ startResult = "null"
    /\ userServerCount = userServerLimit /\ userServerCount = 1
    /\ Len(runningServers) = 1
    /\ calls = EmptyBag


\* C2: in every reachable state userServerCount <= userServerLimit, for any
\* interleaving of startServer calls, their responses, stopServer calls and
\* refreshes.
C2_CountWithinLimit == userServerCount <= userServerLimit

\* a refresh call ends in failure: the get throws, or success is false
RefreshFails(c) ==
    \/ FetchRunningServersThrows(c)
    \/ FetchRunningServersReturns(c) /\ ~c.ok
    \/ FetchUserServersThrows(c)
    \/ FetchUserServersReturns(c) /\ ~c.ok

\* C3: a refresh (fetchRunningServers or fetchUserServers) that fails, by a
\* thrown error or by success = false, leaves runningServers,
\* userServerCount and userServerLimit as they were: the list is never
\* emptied by a failed refresh.
C3_FailedRefreshKeepsState ==
    [][\A c \in InFlight :
          RefreshFails(c)
          => UNCHANGED <<runningServers, userServerCount, userServerLimit>>]_vars

\* C10: in every reachable state no two entries of runningServers have the
\* same pid.
C10_UniquePids ==
    \A i, j \in 1..Len(runningServers) :
        i # j => runningServers[i].pid # runningServers[j].pid

\* ------------------------------------------------------- timer subsystem
\* the entry of pid p in runningServers
Entry(p) == runningServers[CHOOSE i \in 1..Len(runningServers) :
                              runningServers[i].pid = p]

\* the moment from which p has been both in the list and 30 minutes old
AgedSince(p) ==
    IF since[p].at > Entry(p).started_at * 1000 + thirtyMinutes
    THEN since[p].at
    ELSE Entry(p).started_at * 1000 + thirtyMinutes

\* p has stayed in the list, 30 minutes old, for longer than one period of
\* the auto-stop check plus the delay the scheduler may add to a callback
Overdue(p) ==
    /\ p \in PidsOf(runningServers) /\ since[p].in
    /\ now >= AgedSince(p) + AutoStopCheckMs + (MaxLate + 1) * Tick

\* C4: every server that stays in the active set until its age reaches 30
\* minutes has an automatic stopServer call issued for it (at the latest one
\* check period and the scheduler's delay later), while the 30-second refresh
\* keeps running and whatever warnings were dismissed.
C4_AutoStopIssued ==
    \A p \in Pids : Overdue(p) => autoStops[p].issued >= 1

\* C5: for a server whose automatic stop calls do not fail, the clock going
\* past 30 minutes of age causes exactly one automatic stop call: never two,
\* and one once the check has had its time.
C5_ExactlyOneAutoStop ==
    \A p \in Pids :
        autoStops[p].failed = 0
        => /\ autoStops[p].issued <= 1
           /\ Overdue(p) => autoStops[p].issued = 1

\* ------------------------------------------------------ execution router
\* the number of calls of one kind in a bag of calls
CountKind(bag, kind) ==
    Copies(bag, { c \in BagToSet(bag) : c.kind = kind })

\* C6: when the language is python and Provider A answers success = false,
\* exactly one call to Provider B follows (whose stderr, else stdout, is then
\* the displayed output): the answer adds one Provider B call to the calls
\* in flight.
C6_FallbackOnUnsuccessful ==
    [][\A c \in InFlight, text \in Outputs \cup Errors :
          (ProviderAReturns(c, FALSE, text) /\ c.by = "first"
             /\ c.language = "python")
          => CountKind(calls', "execB") = CountKind(calls, "execB") + 1]_vars

\* C7: when the Provider A call of a run without attachments throws,
\* Provider B is called exactly once, with the language, version and stdin
\* of the run; when that Provider B call throws too, the run ends with the
\* failed signal and no further call.
C7_FallbackOnThrow ==
    [][\A c \in InFlight :
          /\ (ProviderAThrows(c) /\ c.by = "first")
             => \E d \in BagToSet(calls') :
                   /\ d.kind = "execB" /\ d.language = c.language
                   /\ d.version = c.version /\ d.stdin = c.stdin
                   /\ calls' = Drop(c) (+) SetToBag({d})
          /\ (ProviderBThrows(c) /\ c.by = "fallback")
             => /\ calls' = Drop(c)
                /\ runSignal' = "failed"
                /\ isRunning' = FALSE]_vars

\* C7: Provider A has thrown on a python run and the one fallback call to
\* Provider B is in flight
C7_Witness ==
    /\ Running = 1
    /\ \E c \in InFlight :
          c.kind = "execB" /\ c.by = "fallback" /\ c.language = "python"

\* C8: execution of a language whose name is not "python" never calls
\* Provider A, whatever its aliases are.
C8_NonPythonNeverProviderA ==
    \A c \in InFlight : c.kind = "execA" => c.language = "python"

\* the aliases Provider B lists for a language name
AliasesOf(language) ==
    UNION { Runtimes[i].aliases :
              i \in { j \in 1..Len(Runtimes) : Runtimes[j].language = language } }

\* neither named python nor aliased py
NotPython(language) == language # "python" /\ "py" \notin AliasesOf(language)

\* C8 as amended: a run of a language that is neither named "python" nor
\* aliased "py" calls only Provider B, directly and once: every call of such
\* a language is a direct Provider B call, and when it returns or throws no
\* call follows it.
C8_OtherLanguagesOnlyProviderB ==
    [][/\ \A d \in BagToSet(calls') :
             (d.kind \in RunKinds /\ NotPython(d.language))
             => d.kind = "execB" /\ d.by = "direct"
       /\ \A c \in InFlight :
             (/\ c.kind = "execB" /\ NotPython(c.language)
              /\ \/ ProviderBThrows(c)
                 \/ \E stdout \in Outputs, stderr \in Errors :
                       ProviderBReturns(c, stdout, stderr))
             => calls' = Drop(c)]_vars

\* C8: a javascript run has its one call in flight, to Provider B
C8_Witness ==
    /\ Running = 1
    /\ \E c \in InFlight :
          c.kind = "execB" /\ c.by = "direct" /\ c.language = "javascript"

\* C9: execution is single-flight: at most one execution call is outstanding
\* in any reachable state.
C9_SingleFlight == Running <= 1

\* ------------------------------------------------------ auto-stop warning
\* p has been in the list, without interruption, from before its 25th minute
\* until after its 26th
PassedWindow(p) ==
    /\ p \in PidsOf(runningServers) /\ since[p].in
    /\ since[p].at <= Entry(p).started_at * 1000 + twentyFiveMinutes
    /\ RunningTime(Entry(p)) >= twentyFiveMinutes + 60000

\* C11: every server that stays in the active set while its age passes
\* through [25 min, 26 min) has had the auto-stop warning raised naming it
\* (autoStopWarning = {show: true, serverId: its pid}) at some point of that
\* window, also while the 30-second refresh keeps running.
C11_WarningRaisedInWindow ==
    \A p \in Pids : PassedWindow(p) => autoStops[p].shown

\* C12: the auto-stop warning for a pid is raised by at most one check: no
\* two checks both raise it for the same pid, however the check interval is
\* rescheduled, so a warning dismissed with keepServerRunning is not raised
\* again for that server.
C12_WarnedAtMostOnce ==
    \A p \in Pids : autoStops[p].warned <= 1

\* ------------------------------------------------------ resource warning
\* C13: the resource warning is one-shot: once it was raised because of a
\* server of 20 minutes or more and acknowledged, no later check raises it
\* again while that server is still the only cause.
C13_ResourceWarningOnce ==
    \A p \in Pids : autoStops[p].resource <= 1

\* some server of the list is 20 minutes old or older
SomeLongRunning ==
    \E i \in 1..Len(runningServers) : RunningTime(runningServers[i]) >= twentyMinutes

\* C14: while every active server is younger than 20 minutes no warning of
\* either kind is raised; a resource-warning check that runs while some
\* server is 20 minutes old or older (exactly 20 minutes included) sets
\* serverWarning; once set, serverWarning stays set until it is acknowledged.
C14_ResourceWarningZone ==
    [][/\ ~SomeLongRunning
          => /\ serverWarning' => serverWarning
             /\ autoStopWarning'.show => autoStopWarning.show
       /\ (WarningInterval /\ SomeLongRunning) => serverWarning'
       /\ (serverWarning /\ ~serverWarning') => AcknowledgeServerWarning]_vars

\* ------------------------------------------------------------- stopServer
\* C15: a stopServer call for a pid that is not in runningServers is a no-op
\* on local state: whatever the backend answers, userServerCount,
\* runningServers and the warning state are as they were.
C15_StopOfUnknownPidIsNoOp ==
    [][\A c \in InFlight :
          /\ c.kind = "stop" /\ c.pid \notin PidsOf(runningServers)
          /\ StopServerReturns(c) \/ StopServerThrows(c)
          => UNCHANGED <<userServerCount, runningServers, serverWarning,
                         autoStopWarning>>]_vars

\* every automatic stop issued for p has returned, and none of them failed
AutoStopSucceeded(p) ==
    /\ autoStops[p].issued >= 1 /\ autoStops[p].failed = 0
    /\ \A c \in InFlight : ~(c.kind = "stop" /\ c.by = "auto" /\ c.pid = p)

\* C16: when a stopServer of the user and the automatic stop are both issued
\* for one server and both report success, userServerCount goes down by
\* exactly 1 in total: the response that comes second, the server already
\* removed, leaves the count as it is.
C16_SecondStopKeepsCount ==
    [][\A c \in InFlight :
          /\ StopServerReturns(c) /\ c.ok /\ c.by = "user"
          /\ AutoStopSucceeded(c.pid) /\ c.pid \notin PidsOf(runningServers)
          => userServerCount' = userServerCount]_vars

\* an automatic stop call ends in failure: the post throws, or success is
\* false
AutoStopFails(c) ==
    /\ c.kind = "stop" /\ c.by = "auto"
    /\ StopServerThrows(c) \/ (StopServerReturns(c) /\ ~c.ok)

\* the pids listed at 30 minutes or more whose automatic stop failed before
FailedAndDue ==
    { p \in Pids : /\ autoStops[p].failed >= 1
                   /\ \E i \in 1..Len(runningServers) :
                         /\ runningServers[i].pid = p
                         /\ RunningTime(runningServers[i]) >= thirtyMinutes }

\* C17: an automatic stop call that fails (thrown error or success = false)
\* leaves the server in runningServers and userServerCount as it was, and
\* the next run of the auto-stop check issues another stop call for it.
C17_FailedAutoStopRetried ==
    [][/\ \A c \in InFlight :
             AutoStopFails(c)
             => /\ UNCHANGED <<runningServers, userServerCount>>
                /\ c.pid \in PidsOf(runningServers)
                   => c.pid \in PidsOf(runningServers')
       /\ AutoStopInterval
          => \A p \in FailedAndDue :
                CopiesIn(Call("stop", p, "auto", <<>>), calls')
                   > CopiesIn(Call("stop", p, "auto", <<>>), calls)]_vars

\* C17: an automatic stop of pid 1 failed, the server stayed listed, and a
\* later check issued another stop call for it
C17_Witness ==
    /\ autoStops[1].failed >= 1 /\ autoStops[1].issued >= 2
    /\ 1 \in PidsOf(runningServers)
    /\ \E c \in InFlight : c.kind = "stop" /\ c.by = "auto" /\ c.pid = 1

\* a start, stop or logs call ends in failure: the post throws, or success
\* is false
CallFails(c) ==
    \/ StartServerThrows(c) \/ (StartServerReturns(c) /\ ~c.ok)
    \/ StopServerThrows(c) \/ (StopServerReturns(c) /\ ~c.ok)
    \/ ViewServerLogsThrows(c) \/ (ViewServerLogsReturns(c) /\ ~c.ok)

\* C18: a failed start, stop or logs call leaves runningServers,
\* userServerCount, userServerLimit, serverWarning and autoStopWarning as
\* they were, also when the failed stop was issued by the automatic stop;
\* viewServerLogs returns null on failure.
C18_FailureKeepsState ==
    [][\A c \in InFlight :
          CallFails(c)
          => /\ UNCHANGED <<runningServers, userServerCount, userServerLimit,
                            serverWarning, autoStopWarning>>
             /\ c.kind = "logs" => logsResult' = "null"]_vars

\* ------------------------------------------------------------ startServer
\* C19: no start-server call is ever sent with a name that is empty or does
\* not match [A-Za-z0-9_-]{1,50}, whichever view (RunView or ServerManager)
\* called startServer.
C19_OnlyValidNamesSent ==
    \A c \in InFlight : c.kind = "start" => MatchesNamePattern(c.name)

\* the list-servers call startServer awaits before it returns
StartRefresh == Call("list", 0, "start", <<>>)

\* C20: a start call with a valid name that the backend answers with
\* success = true adds the returned server (its pid and started_at) at the
\* end of runningServers, raises userServerCount by exactly 1 and issues a
\* list-servers refresh; startServer returns the data only when that refresh
\* is over.
C20_SuccessfulStart ==
    [][/\ \A c \in InFlight :
             (StartServerReturns(c) /\ c.ok /\ ~TrimIsEmpty(c.name))
             => /\ runningServers' = Append(runningServers,
                       [pid |-> c.servers[1].pid,
                        started_at |-> c.servers[1].started_at])
                /\ userServerCount' = userServerCount + 1
                /\ CopiesIn(StartRefresh, calls') = CopiesIn(StartRefresh, calls) + 1
                /\ UNCHANGED <<startResult, isStartingServer>>
       /\ (startResult' = "data" /\ startResult # "data")
          => \E c \in InFlight :
                /\ c.kind = "list" /\ c.by = "start"
                /\ CopiesIn(c, calls') = CopiesIn(c, calls) - 1]_vars

\* C20: the first start has succeeded: its server is listed, the count is 1,
\* and startServer is waiting for its refresh, nothing returned yet
C20_Witness ==
    /\ startToast = "started" /\ startResult = "none" /\ isStartingServer
    /\ Len(runningServers) = 1 /\ userServerCount = 1
    /\ StartRefresh \in InFlight

\* ------------------------------------------------------------- stopServer
\* C21: a successful stopServer(p) for a server p of the list removes exactly
\* the entry with pid p and takes 1 off userServerCount; the auto-stop warning
\* is cleared when its target is p, and an active warning whose target is
\* another server q stays active with target q.
C21_StopRemovesOnlyItsServer ==
    [][\A c \in InFlight :
          (StopServerReturns(c) /\ c.ok /\ c.pid \in PidsOf(runningServers))
          => /\ PidsOf(runningServers') = PidsOf(runningServers) \ {c.pid}
             /\ Len(runningServers') = Len(runningServers) - 1
             /\ userServerCount' = userServerCount - 1
             /\ (autoStopWarning.show /\ autoStopWarning.serverId = c.pid)
                => ~autoStopWarning'.show
             /\ (autoStopWarning.show /\ autoStopWarning.serverId # c.pid)
                => autoStopWarning' = autoStopWarning]_vars

\* ------------------------------------------------------ execution router
\* a run is started with python selected and files among the collected inputs
StartsWithFiles ==
    /\ ExecuteCode \/ SubmitCollectedInputs \/ \E needsInput \in BOOLEAN : RunCode(needsInput)
    /\ selectedLanguage.language = "python" /\ collectedInputs.fileInputs # {}

\* C22: a python run that carries file attachments makes Provider A's
\* multipart call only: the run sends nothing to Provider B, neither at its
\* start nor when Provider A answers success, answers success = false, or
\* throws; the run is over with Provider A's answer or failure.
C22_AttachmentsOnlyProviderA ==
    [][/\ StartsWithFiles
          => /\ CountKind(calls', "execB") = CountKind(calls, "execB")
             /\ \A c \in BagToSet(calls') :
                   CopiesIn(c, calls') > CopiesIn(c, calls)
                   => c.kind = "execA" /\ c.by = "attach"
       /\ \A c \in InFlight :
             /\ c.kind = "execA" /\ c.by = "attach"
             /\ \/ ProviderAThrows(c)
                \/ \E success \in BOOLEAN, text \in Outputs \cup Errors :
                      ProviderAReturns(c, success, text)
             => /\ CountKind(calls', "execB") = CountKind(calls, "execB")
                /\ CountKind(calls', "execA") = CountKind(calls, "execA") - 1
                /\ ~isRunning']_vars

\* C22: a python run with a file attached is waiting for Provider A's
\* multipart call, and no call to Provider B is in flight
C22_Witness ==
    /\ selectedLanguage.language = "python" /\ collectedInputs.fileInputs # {}
    /\ isRunning
    /\ \E c \in InFlight : c.kind = "execA" /\ c.by = "attach"
    /\ CountKind(calls, "execB") = 0

\* C23: for every Provider B response {stdout, stderr} the run sets the
\* output to stderr when stderr is not empty and to stdout otherwise, on the
\* direct path of the other languages and on python's fallback path alike.
C23_StderrBeforeStdout ==
    [][\A c \in InFlight, stdout \in Outputs, stderr \in Errors :
          (ProviderBReturns(c, stdout, stderr) /\ c.by \in {"direct", "fallback"})
          => /\ stderr # "" => output' = stderr
             /\ stderr = "" => output' = stdout]_vars

\* C23: a run of javascript, which goes to Provider B directly, has ended
\* with Provider B's stderr as the output
C23_Witness ==
    /\ selectedLanguage.language = "javascript"
    /\ output = "err" /\ runSignal = "success" /\ ~isRunning /\ Running = 0

\* a run ends in failure: Provider B throws, or the multipart post does
TerminalFailure(c) ==
    \/ ProviderBThrows(c)
    \/ ProviderAThrows(c) /\ c.by = "attach"

\* C24: the running flag is cleared whatever the outcome: when the provider
\* calls of the runs have returned or failed isRunning is false again, and a
\* run that fails for good gives the execution-failed signal with isRunning
\* false.
C24_RunningFlagCleared ==
    [][/\ Running' = 0 => ~isRunning'
       /\ \A c \in InFlight :
             TerminalFailure(c) => runSignal' = "failed" /\ ~isRunning']_vars

\* C24: a run has failed for good: it had set the flag, its fallback call to
\* Provider B threw, and the flag is down with the failure signal given
C24_Witness ==
    /\ runSignal = "failed" /\ ~isRunning /\ Running = 0
    /\ "py" \in selectedLanguage.aliases /\ collectedInputs.fileInputs = {}

\* ---------------------------------------------------------------- refresh
\* a list-servers response that is what the backend answers now, stored
\* while the list holds the backend's servers already
SameAnswerAgain(c) ==
    /\ FetchRunningServersReturns(c) /\ c.ok
    /\ c.servers = ByPid(backend, 1) /\ c.servers # <<>>
    /\ PidsOf(runningServers) = { s.pid : s \in backend }
    /\ Len(runningServers) = Cardinality(backend)

\* C25: the refresh is idempotent: a successful refresh that follows another
\* with no change on the backend in between leaves runningServers with the
\* same pids and the same field values, started_at included, also when the
\* backend omits started_at.
C25_RefreshIdempotent ==
    [][\A c \in InFlight :
          SameAnswerAgain(c) => runningServers' = runningServers]_vars

\* the started_at values the entries of pid p hold in a list
StartedAt(servers, p) ==
    { servers[i].started_at : i \in { j \in 1..Len(servers) : servers[j].pid = p } }

\* C26: started_at of a server is immutable: as long as a pid stays in
\* runningServers, from its insertion to its removal, the started_at stored
\* for it is the same in every state, across any number of refreshes.
C26_StartedAtImmutable ==
    [][\A p \in Pids :
          (p \in PidsOf(runningServers) /\ p \in PidsOf(runningServers'))
          => StartedAt(runningServers', p) = StartedAt(runningServers, p)]_vars

\* --------------------------------------------------------------- warnings
\* C27: keepServerRunning sets the auto-stop warning to inactive and changes
\* nothing else: runningServers, userServerCount, userServerLimit and
\* serverWarning are unchanged and no remote call is issued.
C27_KeepOnlyHidesWarning ==
    [][KeepServerRunning
       => /\ ~autoStopWarning'.show
          /\ UNCHANGED <<runningServers, userServerCount, userServerLimit,
                         serverWarning>>
          /\ calls' = calls]_vars

\* C27: the warning for pid 1 was shown and is hidden again while the server
\* is still listed in its minute of warning: it was dismissed
C27_Witness ==
    /\ autoStops[1].shown /\ ~autoStopWarning.show
    /\ 1 \in PidsOf(runningServers) /\ InWindow(Entry(1))
    /\ backend # {}

\* C28: acknowledgeServerWarning clears the resource-warning flag only:
\* autoStopWarning, runningServers, userServerCount and userServerLimit are
\* unchanged and no remote call is issued.
C28_AcknowledgeOnlyClearsFlag ==
    [][AcknowledgeServerWarning
       => /\ ~serverWarning'
          /\ UNCHANGED <<autoStopWarning, runningServers, userServerCount,
                         userServerLimit>>
          /\ calls' = calls]_vars

\* C28: the resource warning was raised because of pid 1 and is down again,
\* the server still listed: it was acknowledged
C28_Witness ==
    /\ autoStops[1].resource >= 1 /\ ~serverWarning
    /\ 1 \in PidsOf(runningServers)

\* ------------------------------------------------------- timer subsystem
\* an automatic stop call is over, with success or without
AutoStopEnds(c) ==
    /\ c.kind = "stop" /\ c.by = "auto"
    /\ StopServerReturns(c) \/ StopServerThrows(c)

\* C29: one pass of the auto-stop check treats every server on its own: it
\* issues a stop call for each server of 30 minutes or more, and a server in
\* its [25, 26) minute window gets its warning in a pass that stops another
\* server and keeps it whether that stop succeeds or fails.
C29_PassTreatsServersApart ==
    [][/\ AutoStopInterval
          => /\ \A i \in 1..Len(runningServers) :
                   RunningTime(runningServers[i]) >= thirtyMinutes
                   => CopiesIn(Call("stop", runningServers[i].pid, "auto", <<>>), calls')
                         > CopiesIn(Call("stop", runningServers[i].pid, "auto", <<>>), calls)
             /\ WarnedPids(runningServers) # {}
                => /\ autoStopWarning'.show
                   /\ autoStopWarning'.serverId \in WarnedPids(runningServers)
       /\ \A c \in InFlight :
             /\ AutoStopEnds(c)
             /\ autoStopWarning.show /\ autoStopWarning.serverId # c.pid
             => autoStopWarning' = autoStopWarning]_vars

\* the response of a refresh, a start or a stop arrives (or its call fails)
ResponseArrives(c) ==
    \/ FetchRunningServersReturns(c) \/ FetchRunningServersThrows(c)
    \/ FetchUserServersReturns(c) \/ FetchUserServersThrows(c)
    \/ StartServerReturns(c) \/ StartServerThrows(c)
    \/ StopServerReturns(c) \/ StopServerThrows(c)

\* C30: the timer checks are decoupled from the request/response cycle: the
\* arrival of a refresh, start or stop response neither cancels nor postpones
\* a pending auto-stop check or resource-warning check (while servers stay
\* listed), and a check that runs late decides from now - started_at: run at
\* any age of 30 minutes or more, it issues the stop.
C30_ChecksDecoupled ==
    [][/\ \A c \in InFlight :
             (ResponseArrives(c) /\ runningServers' # <<>>)
             => /\ autoStopTimer.on
                   => autoStopTimer'.on /\ autoStopTimer'.due <= autoStopTimer.due
                /\ warningTimer.on /\ ~serverWarning'
                   => warningTimer'.on /\ warningTimer'.due <= warningTimer.due
       /\ AutoStopInterval
          => \A i \in 1..Len(runningServers) :
                RunningTime(runningServers[i]) >= thirtyMinutes
                => \E c \in BagToSet(calls') :
                      /\ c.kind = "stop" /\ c.by = "auto"
                      /\ c.pid = runningServers[i].pid
                      /\ CopiesIn(c, calls') > CopiesIn(c, calls)]_vars

\* ------------------------------------------------------- files and inputs
\* the extension the detection reads off the active file
Extension(file) == file.name[Len(file.name)]

\* a supported language answers to the extension
Matches(lang, extension) ==
    \/ extension \in lang.aliases
    \/ lang.language \in LangMapLanguages(extension)

\* the detection ran over a new input: another file name, or another list
Detects ==
    /\ <<activeFile.name, supportedLanguages>>' # <<activeFile.name, supportedLanguages>>
    /\ supportedLanguages' # <<>>
    /\ activeFile' # NoFile
    /\ Extension(activeFile') # ""

\* C31: detection by file name selects the first supported language that
\* answers to the extension of the active file, and leaves the language unset
\* (the empty descriptor) when none does, whatever was selected before
C31_DetectionByExtension ==
    [][Detects =>
          LET langs == supportedLanguages'
              ext == Extension(activeFile')
              hits == { i \in 1..Len(langs) : Matches(langs[i], ext) }
          IN IF hits = {} THEN selectedLanguage' = NoLanguage
             ELSE \E i \in hits : /\ \A j \in hits : i <= j
                                  /\ selectedLanguage' = langs[i]]_vars

\* submitCollectedInputs runs while the input collector is open
Submits == showInputCollector /\ SubmitCollectedInputs

\* the last outstanding run ends, and it had sent the collected file fields
ConsumedRunEnds ==
    /\ Running > 0 /\ Running' = 0
    /\ \E c \in BagToSet(calls (-) calls') : c.by = "attach"

\* C32: the collected input set is consumed once: the call a submission
\* issues carries the newline-joined collected texts as stdin, and once the
\* run that sent the collected fields has ended, with the collector closed,
\* the collected set is empty again
C32_CollectedInputsConsumedOnce ==
    [][/\ Submits =>
            \A c \in BagToSet(calls' (-) calls) :
                c.stdin = Join(collectedInputs.textInputs)
       /\ ConsumedRunEnds /\ ~showInputCollector =>
            collectedInputs' = [textInputs |-> <<>>, fileInputs |-> {}]]_vars

\* ---------------------------------------------------------------- teardown
\* the requests of the periodic tasks not yet answered: the two fetches of
\* the refresh and the automatic stops of the auto-stop check
TimerRequests(bag) ==
    Copies(bag, { c \in BagToSet(bag) :
                    c.by \in {"timer", "auto"} /\ c.phase = "req" })

\* C33: after the unmount of the provider no periodic task is scheduled: the
\* refresh interval stays cleared, the auto-stop and the resource-warning
\* intervals are not set again, and no step issues a refresh or stop call of
\* a timer
C33_NoTimerAfterTeardown ==
    [][~Mounted =>
          /\ ~Mounted'
          /\ ~autoStopTimer.on /\ ~autoStopTimer'.on
          /\ ~warningTimer.on /\ ~warningTimer'.on
          /\ TimerRequests(calls') <= TimerRequests(calls)]_vars

\* the provider is unmounted, the listed server has passed 30 minutes and
\* the next auto-stop check would have been due, while a follow-up fetch of
\* a stop that returned after the unmount is in flight
C33_Witness ==
    /\ ~Mounted
    /\ runningServers # <<>>
    /\ \E i \in 1..Len(runningServers) :
          /\ RunningTime(runningServers[i]) >= thirtyMinutes
          /\ since[runningServers[i].pid].in
          /\ now >= since[runningServers[i].pid].at + AutoStopCheckMs
    /\ \E c \in InFlight : c.kind = "list" /\ c.by = "none"

\* ------------------------------------------------------------------ quota
\* C34: a successful list-servers refresh whose response declares
\* max_servers_per_user = L leaves userServerLimit equal to L, whatever L is,
\* and one that declares no limit leaves userServerLimit as it was
C34_DeclaredLimitOverrides ==
    [][\A c \in InFlight :
          FetchRunningServersReturns(c) /\ c.ok
          => userServerLimit' = IF c.num # Undefined THEN c.num
                                ELSE userServerLimit]_vars

\* ---------------------------------------------------------- stale responses
\* the pids the backend runs
BackendPids == { s.pid : s \in backend }

\* no stop or start of the context is still waiting for its outcome
NoneCompleting == \A c \in InFlight : c.kind \notin {"stop", "start"}

\* C35: a response requested before a stop or a start completed and stored
\* after it does not undo it: a stored list-servers response does not bring
\* back a server that a completed stop has removed from the list and from
\* the backend, nor drops a listed server the backend still runs, and a
\* stored user-servers response does not raise userServerCount above the
\* number of servers the backend runs
C35_StaleResponseIgnored ==
    [][/\ \A c \in InFlight :
             FetchRunningServersReturns(c) /\ c.ok /\ NoneCompleting
             => \A p \in Pids :
                   /\ p \notin PidsOf(runningServers) /\ p \notin BackendPids
                          => p \notin PidsOf(runningServers')
                   /\ p \in PidsOf(runningServers) /\ p \in BackendPids
                          => p \in PidsOf(runningServers')
       /\ \A c \in InFlight :
             FetchUserServersReturns(c) /\ c.ok /\ NoneCompleting
                /\ userServerCount = Cardinality(backend)
             => userServerCount' = userServerCount]_vars

\* --------------------------------------------------------- warning target
\* C36: whenever the auto-stop warning is active, its target is the pid of a
\* server in runningServers: a refresh, a stop or a failed refresh that
\* removes the target also deactivates the warning
C36_WarningTargetListed ==
    autoStopWarning.show => autoStopWarning.serverId \in PidsOf(runningServers)

\* ------------------------------------------------------------ running flag
\* C37: isRunning is true in every state in which a provider call is
\* outstanding, also when two runs overlap and the first one completes
C37_RunningWhileOutstanding == Running > 0 => isRunning

\* ---------------------------------------------------------------- runCode
\* runCode has to return early: no language is selected, no file is active,
\* or the analyzer asks for input
ReturnsEarly(needsInput) ==
    selectedLanguage.language = "" \/ activeFile = NoFile \/ needsInput

\* C38: runCode issues no provider call and leaves isRunning and the output
\* as they were when no language is selected, when no file is active or when
\* the analyzer reports that input must be collected; in the last case it
\* opens the input collector, and the provider call is the one
\* submitCollectedInputs issues when it closes the collector
C38_RunCodeReturnsEarly ==
    [][/\ \A needsInput \in BOOLEAN :
             RunCode(needsInput) /\ ReturnsEarly(needsInput)
             => /\ calls' = calls /\ isRunning' = isRunning /\ output' = output
                /\ selectedLanguage.language # "" /\ activeFile # NoFile
                      => showInputCollector'
       /\ ~showInputCollector /\ showInputCollector'
             => calls' = calls /\ isRunning' = isRunning
       /\ Submits /\ activeFile # NoFile
             => Running' = Running + 1 /\ isRunning']_vars

\* the collector is open for a Python file, as runCode leaves it when input
\* must be collected: nothing runs and the output is still empty
C38_Witness ==
    /\ showInputCollector
    /\ selectedLanguage.language = "python" /\ activeFile # NoFile
    /\ Running = 0 /\ ~isRunning /\ output = ""

====
